---- MODULE Spec2Model ----
(***************************************************************************)
(* Model of the report-analysis core (report_qa_chat.py), of the other     *)
(* writer of analysis_store.json (qa_interface.py) and of the cached       *)
(* remote lookup (chat_system.py).                                         *)
(*                                                                         *)
(* A Python str is a sequence of one-character strings; the literals the   *)
(* code emits as a whole (headers, bullets) are single tokens.             *)
(***************************************************************************)
EXTENDS Integers, Sequences, FiniteSets, TLC

(***************************************************************************)
(* Characters and character classes of the pattern                         *)
(***************************************************************************)
NL == "\n"
UpperSeq == <<"A","B","C","D","E","F","G","H","I","J","K","L","M",
              "N","O","P","Q","R","S","T","U","V","W","X","Y","Z">>
LowerSeq == <<"a","b","c","d","e","f","g","h","i","j","k","l","m",
              "n","o","p","q","r","s","t","u","v","w","x","y","z">>
UpperCh == {UpperSeq[i] : i \in DOMAIN UpperSeq}
LowerCh == {LowerSeq[i] : i \in DOMAIN LowerSeq}
DigitCh == {"0","1","2","3","4","5","6","7","8","9"}
SpaceCh == {" ", "\t"}
LabelCh == UpperCh \cup DigitCh \cup SpaceCh
SepCh == {":"} \cup SpaceCh
ValueCh == DigitCh \cup {"."}
MaxLabelTail == 30

UpperMap ==
    [c \in LowerCh |-> UpperSeq[CHOOSE i \in DOMAIN LowerSeq : LowerSeq[i] = c]]
LowerMap ==
    [c \in UpperCh |-> LowerSeq[CHOOSE i \in DOMAIN UpperSeq : UpperSeq[i] = c]]

\* str.upper() on one character
UpperOf(c) == IF c \in LowerCh THEN UpperMap[c] ELSE c

\* str.lower() on one character
LowerOf(c) == IF c \in UpperCh THEN LowerMap[c] ELSE c

upper(s) == [i \in DOMAIN s |-> UpperOf(s[i])]
lower(s) == [i \in DOMAIN s |-> LowerOf(s[i])]

Min(a, b) == IF a < b THEN a ELSE b

\* length of the longest run of characters of class cls in s from position p
RECURSIVE Run(_, _, _)
Run(s, p, cls) ==
    IF p > Len(s) \/ p < 1 THEN 0
    ELSE IF s[p] \in cls THEN 1 + Run(s, p + 1, cls) ELSE 0

\* the number of characters before the next newline, from position p
RECURSIVE LineLen(_, _)
LineLen(s, p) ==
    IF p > Len(s) \/ s[p] = NL THEN 0 ELSE 1 + LineLen(s, p + 1)

\* str.splitlines(): the lines between newlines, no empty last line
RECURSIVE LinesFrom(_, _)
LinesFrom(s, p) ==
    IF p > Len(s) THEN <<>>
    ELSE LET n == LineLen(s, p)
         IN  <<SubSeq(s, p, p + n - 1)>> \o LinesFrom(s, p + n + 1)

splitlines(s) == LinesFrom(s, 1)

\* str.strip()
strip(s) ==
    LET a == Run(s, 1, SpaceCh)
        RECURSIVE Back(_)
        Back(p) == IF p >= 1 /\ s[p] \in SpaceCh THEN Back(p - 1) ELSE p
    IN  IF a = Len(s) THEN <<>> ELSE SubSeq(s, a + 1, Back(Len(s)))

\* s has the word w at position p
StartsAt(s, p, w) ==
    /\ p + Len(w) - 1 <= Len(s)
    /\ \A i \in DOMAIN w : s[p + i - 1] = w[i]

(***************************************************************************)
(* re.search(pattern, line): leftmost start, greedy groups, backtracking   *)
(* pattern = ([A-Z][A-Z0-9\s]{1,30})[:\s]+([\d.]+)\s*(HIGH|LOW|NORMAL)?    *)
(***************************************************************************)
HIGH == <<"H","I","G","H">>
LOW == <<"L","O","W">>
NORMAL == <<"N","O","R","M","A","L">>

\* [:\s]+ from p, then [\d.]: the separator gives characters back one at
\* a time until a value character follows; 0 when none does
RECURSIVE SepLen(_, _, _)
SepLen(s, p, m) ==
    IF m < 1 THEN 0
    ELSE IF p + m <= Len(s) /\ s[p + m] \in ValueCh THEN m
    ELSE SepLen(s, p, m - 1)

\* [A-Z0-9\s]{1,30} after the first letter at i: the label tail gives
\* characters back one at a time until separator and value follow;
\* <<n, m>> are the lengths of tail and separator, <<0, 0>> for no match
RECURSIVE LabelLen(_, _, _)
LabelLen(s, i, n) ==
    IF n < 1 THEN <<0, 0>>
    ELSE LET m == SepLen(s, i + n + 1, Run(s, i + n + 1, SepCh))
         IN  IF m >= 1 THEN <<n, m>> ELSE LabelLen(s, i, n - 1)

MatchAt(s, i) ==
    IF s[i] \notin UpperCh THEN <<0, 0>>
    ELSE LabelLen(s, i, Min(MaxLabelTail, Run(s, i + 1, LabelCh)))

\* the leftmost position the pattern matches at; 0 when there is none
RECURSIVE FirstMatch(_, _)
FirstMatch(s, i) ==
    IF i > Len(s) THEN 0
    ELSE IF MatchAt(s, i)[1] >= 1 THEN i
    ELSE FirstMatch(s, i + 1)

StatusAt(s, p) ==
    IF StartsAt(s, p, HIGH) THEN HIGH
    ELSE IF StartsAt(s, p, LOW) THEN LOW
    ELSE IF StartsAt(s, p, NORMAL) THEN NORMAL
    ELSE <<>>

\* match.groups() as [param, value, status], status <<>> for None;
\* <<>> when the line has no match
search(s) ==
    LET i == FirstMatch(s, 1)
    IN  IF i = 0 THEN <<>>
        ELSE LET nm == MatchAt(s, i)
                 v  == i + nm[1] + 1 + nm[2]
                 k  == Run(s, v, ValueCh)
                 w  == Run(s, v + k, SpaceCh)
             IN  <<[param  |-> SubSeq(s, i, i + nm[1]),
                    value  |-> SubSeq(s, v, v + k - 1),
                    status |-> StatusAt(s, v + k + w)]>>

\* a status word kept as it was matched
capitalizeNothing(w) == w

\* str.capitalize() of a status word
capitalize(w) == <<w[1]>> \o lower(SubSeq(w, 2, Len(w)))

Normal == capitalize(NORMAL)
High == capitalize(HIGH)
Low == capitalize(LOW)

\* a dict that keeps the entry it has
DictPutKeepFirst(data, key, entry) ==
    IF \E i \in DOMAIN data : data[i].key = key
    THEN data
    ELSE Append(data, [key |-> key] @@ entry)

\* data[key] = entry on an insertion-ordered dict kept as a sequence
DictPut(data, key, entry) ==
    IF \E i \in DOMAIN data : data[i].key = key
    THEN [i \in DOMAIN data |->
            IF data[i].key = key THEN [key |-> key] @@ entry ELSE data[i]]
    ELSE Append(data, [key |-> key] @@ entry)

RECURSIVE ParseLines(_, _)
ParseLines(lines, data) ==
    IF lines = <<>> THEN data
    ELSE LET m == search(upper(Head(lines)))
         IN  ParseLines(Tail(lines),
                IF m = <<>> THEN data
                ELSE DictPut(data, strip(m[1].param),
                        [value  |-> m[1].value,
                         status |-> IF m[1].status # <<>>
                                    THEN capitalize(m[1].status)
                                    ELSE Normal]))

_parse_report_values(text) == ParseLines(splitlines(text), <<>>)

(***************************************************************************)
(* _offline_summary: the rendering of a parsed report.  The pictographs of *)
(* the literals are written as ASCII words.                                *)
(***************************************************************************)
UNABLE == <<"(warn) Unable to interpret report content.">>
NO_REPORTS == <<"(warn) No reports uploaded.">>
QUOTA_EXCEEDED == <<"(warn) AI quota exceeded. Please try again later.">>
HdrNormal == <<"(ok) Normal Values:">>
HdrHigh == <<NL, "(warn) High Values:">>
HdrLow == <<NL, "(warn) Low Values:">>
HdrRecommend == <<NL, "(alarm) Recommendation:">>
Consult == <<"- Please consult a qualified medical professional.">>
UpMark == <<" (up)">>
DownMark == <<" (down)">>

\* a loop without the branch for "Low"
BucketHighOnly(val) == IF val.status = High THEN "high" ELSE "normal"

\* the for loop of lines 84-90: the entries of one bucket, in dict order
Bucket(val) ==
    IF val.status = High THEN "high"
    ELSE IF val.status = Low THEN "low"
    ELSE "normal"

ItemText(e) ==
    e.key \o <<": ">> \o e.value
        \o (IF Bucket(e) = "high" THEN UpMark
            ELSE IF Bucket(e) = "low" THEN DownMark
            ELSE <<>>)

RECURSIVE Collect(_, _)
Collect(parsed, b) ==
    IF parsed = <<>> THEN <<>>
    ELSE (IF Bucket(Head(parsed)) = b THEN <<ItemText(Head(parsed))>> ELSE <<>>)
         \o Collect(Tail(parsed), b)

Bullets(xs) == [i \in DOMAIN xs |-> <<"- ">> \o xs[i]]

\* sep.join(parts)
RECURSIVE join(_, _)
join(sep, parts) ==
    IF parts = <<>> THEN <<>>
    ELSE IF Len(parts) = 1 THEN parts[1]
    ELSE parts[1] \o sep \o join(sep, Tail(parts))

_offline_summary(parsed) ==
    IF parsed = <<>> THEN UNABLE
    ELSE LET high   == Collect(parsed, "high")
             low    == Collect(parsed, "low")
             normal == Collect(parsed, "normal")
             output ==
                (IF normal # <<>> THEN <<HdrNormal>> \o Bullets(normal) ELSE <<>>)
                \o (IF high # <<>> THEN <<HdrHigh>> \o Bullets(high) ELSE <<>>)
                \o (IF low # <<>> THEN <<HdrLow>> \o Bullets(low) ELSE <<>>)
                \o <<HdrRecommend, Consult>>
         IN  join(<<NL>>, output)

(***************************************************************************)
(* The report store, its sessions and the gateway                          *)
(***************************************************************************)
Sessions == {"s1", "s2"}
MaxReports == 2
MaxLegacy == 1

Questions == {<<"what is my HB?">>, <<"is WBC ok?">>}

\* report texts: empty, one low value, the same label again among two lines
TextEmpty == <<>>
TextLow == <<"H","b",":"," ","9"," ","l","o","w">>
TextTwo == <<"W","B","C"," ","6",".","2",NL,"H","B",":","1","2">>
Texts == {TextEmpty, TextLow, TextTwo}

\* the reports a user uploads: a file name and the text extracted from it
Uploads == {<<<<"a.txt">>, TextLow>>, <<<<"b.pdf">>, TextTwo>>,
            <<<<"a.txt">>, TextEmpty>>}

\* what generate_content / response.text can do: a text (possibly empty)
\* or an exception with a message
GatewayTexts == {<<>>, <<"AI text">>}
ErrQuota == <<"4","2","9"," ","q","u","o","t","a">>
ErrDown == <<"5","0","0"," ","d","o","w","n">>
ErrorMessages == {ErrQuota, ErrDown}
GatewayOutcomes ==
    {[kind |-> "ok", text |-> t] : t \in GatewayTexts}
        \cup {[kind |-> "error", text |-> m] : m \in ErrorMessages}
Unavailable == [kind |-> "unavailable", text |-> <<>>]

\* Python's None, and a key a dict does not have
None == <<"(None)">>
NoId == 0

\* w in s
Contains(s, w) == \E p \in 1..Len(s) : StartsAt(s, p, w)
QuotaCode == <<"4","2","9">>

\* not x, for x a str or None
Falsy(x) == x = None \/ x = <<>>

VARIABLES
    file,       \* analysis_store.json: [kind, analyses]
    store,      \* store[s]: self.analysis_store of session s
    model,      \* model[s]: self.model is set
    pc,         \* pc[s]: "idle", or "analyzing" inside analyze_report
    call,       \* call[s]: the locals of the analyze_report call in progress
    nextId,     \* the uuid4 values handed out so far, plus one
    writer,     \* who wrote analysis_store.json last
    last,       \* what the latest step did: the call that returned or raised
    cache,      \* api_cache.json: folded query -> result
    lk,         \* the fetch_medical_info call in progress
    lkLast,     \* what the latest step of the lookup did
    off         \* the offline path applied to given reports, step by step

rvars == <<file, store, model, pc, call, nextId, writer, last>>
lvars == <<cache, lk, lkLast>>
pvars == <<off>>
vars == <<rvars, lvars, pvars>>

EmptyStore == [kind |-> "store", analyses |-> <<>>]
FileKinds == {"missing", "undecodable", "nokey", "nondict"}
NoCall == [report_id |-> NoId, filename |-> <<>>, content |-> <<>>,
           before |-> <<>>]
NoEvent == [op |-> "none", session |-> "none", raised |-> FALSE,
            value |-> None, outcome |-> Unavailable, calls |-> 0,
            content |-> <<>>, before |-> <<>>, report_id |-> NoId,
            corpus |-> <<>>]

\* json.load of the file, or the empty store when the file is missing or
\* does not decode
_load_analysis_store(f) ==
    IF f.kind \in {"missing", "undecodable"} THEN EmptyStore ELSE f

\* a save that leaves the newest record out
SaveWithoutNewest(mem) ==
    [mem EXCEPT !.analyses = SubSeq(@, 1, Len(@) - 1)]

\* a save that writes the newest record alone
SaveOnlyNewest(mem) ==
    [mem EXCEPT !.analyses = SubSeq(@, Len(@), Len(@))]

\* json.dump of the whole in-memory store
_save_store(mem) == mem

\* qa_interface._load_store
_load_store(f) ==
    IF f.kind \in {"missing", "undecodable"} THEN EmptyStore ELSE f

\* an identifier source that repeats itself
uuid4Repeating(n) == 1

\* str(uuid.uuid4()): a value no earlier call returned
uuid4(n) == n

\* the record upload_report appends
NewReport(report_id, filename, content) ==
    [id |-> report_id, filename |-> filename, analysis |-> content,
     ai_summary |-> None]

\* the entry add_report_analysis appends: no "id", no "ai_summary"
LegacyEntry(filename, analysis_text) ==
    [id |-> NoId, filename |-> filename, analysis |-> analysis_text,
     ai_summary |-> None]

\* a gateway call that is made again after a failure
InvokeGatewayRetrying(m, out) ==
    IF m THEN [calls |-> IF out.kind = "error" THEN 2 ELSE 1, outcome |-> out]
    ELSE [calls |-> 0, outcome |-> Unavailable]

\* self.model.generate_content(...) under `if self.model:`
InvokeGateway(m, out) ==
    IF m THEN [calls |-> 1, outcome |-> out]
    ELSE [calls |-> 0, outcome |-> Unavailable]

\* a summary that is left unset when the gateway fails
AnalyzeSummaryNoFallback(outcome, content) ==
    IF outcome.kind = "ok" /\ outcome.text # <<>> THEN outcome.text
    ELSE IF outcome.kind = "unavailable"
    THEN _offline_summary(_parse_report_values(content))
    ELSE None

\* lines 116-149 of analyze_report: the summary
AnalyzeSummary(outcome, content) ==
    LET summary == IF outcome.kind = "ok" THEN outcome.text ELSE None
    IN  IF Falsy(summary)
        THEN _offline_summary(_parse_report_values(content))
        ELSE summary

\* lines 151-153: for report in analyses: if report["id"] == report_id: ...
\* report["id"] raises KeyError on the first record without the key; the
\* records before it have been visited
FirstNoId(analyses) ==
    IF \E i \in DOMAIN analyses : analyses[i].id = NoId
    THEN CHOOSE i \in DOMAIN analyses :
            /\ analyses[i].id = NoId
            /\ \A j \in 1..(i - 1) : analyses[j].id # NoId
    ELSE Len(analyses) + 1

\* a loop that forgets to compare the identifier
SetSummaryOnAll(analyses, report_id, summary) ==
    [i \in DOMAIN analyses |->
        IF i < FirstNoId(analyses)
        THEN [analyses[i] EXCEPT !.ai_summary = summary]
        ELSE analyses[i]]

SetSummary(analyses, report_id, summary) ==
    [i \in DOMAIN analyses |->
        IF i < FirstNoId(analyses) /\ analyses[i].id = report_id
        THEN [analyses[i] EXCEPT !.ai_summary = summary]
        ELSE analyses[i]]

SetSummaryRaises(analyses) == FirstNoId(analyses) <= Len(analyses)

\* "\n\n".join(report["analysis"] for report in reports)
Analyses(reports) == [i \in DOMAIN reports |-> reports[i].analysis]

\* a corpus that names the file before each text
CombinedWithFilenames(reports) ==
    join(<<NL, NL>>,
         [i \in DOMAIN reports |->
            <<"Report: ">> \o reports[i].filename \o <<NL>>
                \o reports[i].analysis])

CombinedReports(reports) == join(<<NL, NL>>, Analyses(reports))

\* an answer that treats a quota failure like any other failure
AnswerForNoQuota(outcome, combined_reports) ==
    IF outcome.kind = "ok" THEN outcome.text
    ELSE _offline_summary(_parse_report_values(combined_reports))

\* an answer that takes an empty text for a failure, as analyze_report does
AnswerForEmptyAsFailure(outcome, combined_reports) ==
    IF outcome.kind = "ok" /\ ~Falsy(outcome.text) THEN outcome.text
    ELSE IF outcome.kind = "error" /\ Contains(outcome.text, QuotaCode)
    THEN QUOTA_EXCEEDED
    ELSE _offline_summary(_parse_report_values(combined_reports))

\* lines 171-198 of answer_question, reports not empty
AnswerFor(outcome, combined_reports) ==
    IF outcome.kind = "ok" THEN outcome.text
    ELSE IF outcome.kind = "error" /\ Contains(outcome.text, QuotaCode)
    THEN QUOTA_EXCEEDED
    ELSE _offline_summary(_parse_report_values(combined_reports))

\* ReportQASystem(gemini_api_key=...): app.py builds a new instance when the
\* key changes
Construct(s, key) ==
    /\ pc[s] = "idle"
    /\ store' = [store EXCEPT ![s] = _load_analysis_store(file)]
    /\ model' = [model EXCEPT ![s] = key]
    /\ last' = [NoEvent EXCEPT !.op = "construct", !.session = s]
    /\ UNCHANGED <<file, pc, call, nextId, writer, lvars, pvars>>

\* analyze_report, line 115: upload_report(filename, content)
AnalyzeUpload(s, filename, content) ==
    /\ pc[s] = "idle"
    /\ nextId <= MaxReports
    /\ IF store[s].kind # "store"
       THEN \* self.analysis_store["analyses"] raises
            /\ last' = [NoEvent EXCEPT !.op = "analyze", !.session = s,
                            !.raised = TRUE, !.content = content]
            /\ UNCHANGED <<file, store, model, pc, call, nextId, writer>>
            /\ UNCHANGED <<lvars, pvars>>
       ELSE LET report_id == uuid4(nextId)
                mem == [store[s] EXCEPT !.analyses =
                            Append(@, NewReport(report_id, filename, content))]
            IN  /\ store' = [store EXCEPT ![s] = mem]
                /\ file' = _save_store(mem)
                /\ writer' = s
                /\ nextId' = nextId + 1
                /\ pc' = [pc EXCEPT ![s] = "analyzing"]
                /\ call' = [call EXCEPT ![s] =
                                [report_id |-> report_id, filename |-> filename,
                                 content |-> content,
                                 before |-> store[s].analyses]]
                /\ last' = [NoEvent EXCEPT !.op = "upload", !.session = s]
                /\ UNCHANGED <<model, lvars, pvars>>

\* analyze_report, lines 116-156
AnalyzeFinish(s, out) ==
    /\ pc[s] = "analyzing"
    /\ LET g       == InvokeGateway(model[s], out)
           summary == AnalyzeSummary(g.outcome, call[s].content)
           raises  == SetSummaryRaises(store[s].analyses)
           mem     == [store[s] EXCEPT !.analyses =
                            SetSummary(@, call[s].report_id, summary)]
           ev      == [NoEvent EXCEPT !.op = "analyze", !.session = s,
                            !.outcome = g.outcome, !.calls = g.calls,
                            !.content = call[s].content,
                            !.before = call[s].before,
                            !.report_id = call[s].report_id]
       IN  /\ store' = [store EXCEPT ![s] = mem]
           /\ IF raises
              THEN /\ last' = [ev EXCEPT !.raised = TRUE]
                   /\ UNCHANGED <<file, writer>>
              ELSE /\ file' = _save_store(mem)
                   /\ writer' = s
                   /\ last' = [ev EXCEPT !.value = summary]
    /\ pc' = [pc EXCEPT ![s] = "idle"]
    /\ call' = [call EXCEPT ![s] = NoCall]
    /\ UNCHANGED <<model, nextId, lvars, pvars>>

\* answer_question(question)
AnswerQuestion(s, question, out) ==
    /\ pc[s] = "idle"
    /\ LET ev == [NoEvent EXCEPT !.op = "answer", !.session = s]
       IN  IF store[s].kind = "nondict"
           THEN \* .get on a value that is no dict raises
                last' = [ev EXCEPT !.raised = TRUE]
           ELSE IF store[s].analyses = <<>>
           THEN last' = [ev EXCEPT !.value = NO_REPORTS]
           ELSE LET combined_reports == CombinedReports(store[s].analyses)
                    g == InvokeGateway(model[s], out)
                IN  last' = [ev EXCEPT
                        !.outcome = g.outcome, !.calls = g.calls,
                        !.corpus = combined_reports,
                        !.value = AnswerFor(g.outcome, combined_reports)]
    /\ UNCHANGED <<file, store, model, pc, call, nextId, writer, lvars, pvars>>

\* qa_interface: ReportQASystem().add_report_analysis(filename, text), the
\* other class that keeps its records in analysis_store.json
add_report_analysis(filename, analysis_text) ==
    LET qi == _load_store(file)
    IN  /\ Cardinality({i \in DOMAIN qi.analyses : qi.analyses[i].id = NoId})
                < MaxLegacy
        /\ IF qi.kind # "store"
           THEN /\ last' = [NoEvent EXCEPT !.op = "add", !.session = "qi",
                                !.raised = TRUE]
                /\ UNCHANGED <<file, writer>>
           ELSE /\ file' = [qi EXCEPT !.analyses =
                                Append(@, LegacyEntry(filename, analysis_text))]
                /\ writer' = "qi"
                /\ last' = [NoEvent EXCEPT !.op = "add", !.session = "qi"]
        /\ UNCHANGED <<store, model, pc, call, nextId, lvars, pvars>>

\* what the gateway has to offer to a session: an outcome of O when the
\* session has a model to call, nothing otherwise
Offered(s, O) == IF model[s] THEN O ELSE {Unavailable}

\* what the other writer files
LegacyFilenames == {<<"scan.png">>}
LegacyTexts == {<<"H","B",":"," ","7"," ","L","O","W">>}

(***************************************************************************)
(* chat_system.py: the cached remote lookup                                *)
(***************************************************************************)
MaxAttempts == 3

Queries == {<<"F","l","u">>, <<"F","L","U">>, <<"f","l","u">>,
            <<"C","o","l","d">>}

\* what the endpoint can send: result.response with every field, or a
\* document without them
Absent == <<"(absent)">>
FullData == [message |-> <<"rest">>,
             recommendations |-> <<<<"fever">>, <<"cough">>>>,
             warnings |-> <<<<"see a doctor">>>>,
             references |-> <<<<"ref 1">>, <<"ref 2">>>>,
             followUp |-> <<<<"fluids">>>>]
BareData == [message |-> Absent, recommendations |-> Absent,
             warnings |-> Absent, references |-> Absent, followUp |-> Absent]
RemoteData == {FullData, BareData}

\* requests.post, raise_for_status and response.json(): a failure of any
\* kind, or the decoded document
RemoteOutcomes ==
    {[kind |-> "fail", data |-> BareData]}
        \cup {[kind |-> "ok", data |-> d] : d \in RemoteData}

NotAvailable == <<"Not available">>

\* resp_obj.get(name, default): a list field, [] when absent
ListField(x) == IF x = Absent THEN <<>> ELSE x

\* "; ".join(xs) if xs else default
Joined(xs, default) ==
    IF ListField(xs) = <<>> THEN default ELSE join(<<"; ">>, ListField(xs))

\* lines 136-151: the result built from the response
BuildResult(query, data) ==
    [query           |-> query,
     description     |-> IF data.message = Absent THEN NotAvailable
                         ELSE data.message,
     common_symptoms |-> Joined(data.recommendations, NotAvailable),
     treatment       |-> Joined(data.followUp, NotAvailable),
     warnings        |-> Joined(data.warnings, <<"None">>),
     references      |-> Joined(data.references, <<"None">>)]

\* a degraded result filled like an empty response
DegradedAsEmpty(query) ==
    [query           |-> query,
     description     |-> <<"Not available">>,
     common_symptoms |-> <<"Not available">>,
     treatment       |-> <<"Not available">>,
     warnings        |-> <<"None">>,
     references      |-> <<"None">>]

\* lines 161-168: the result when every attempt failed
Degraded(query) ==
    [query           |-> query,
     description     |-> <<"Medical service unavailable">>,
     common_symptoms |-> <<"Unavailable">>,
     treatment       |-> <<"Unavailable">>,
     warnings        |-> <<"Unavailable">>,
     references      |-> <<"Unavailable">>]

\* a value that is no result: Python's None
NoResult == [query |-> None, description |-> None, common_symptoms |-> None,
             treatment |-> None, warnings |-> None, references |-> None]

\* line 110: query_lower = query.lower()
QueryLower(query) == lower(query)

\* json.load(f).get(query.lower()), None when there is no such key
get_cached_response(c, query) ==
    IF lower(query) \in DOMAIN c THEN c[lower(query)] ELSE NoResult

\* a save that writes the cache back as it was read
SaveNothing(c, query, response) == c

\* cache[query.lower()] = response, and the whole cache written back
save_cached_response(c, query, response) ==
    [k \in DOMAIN c \cup {lower(query)} |->
        IF k = lower(query) THEN response ELSE c[k]]

EmptyCache == [k \in {} |-> NoResult]

\* the offline path at rest
NoOffline == [pc |-> "idle", reports |-> <<>>, combined_reports |-> <<>>,
              parsed |-> <<>>, summary |-> None]
NoLookup == [pc |-> "idle", query |-> <<>>, outcomes |-> <<>>, sleeps |-> 0,
             before |-> EmptyCache]
NoLookupEvent == [op |-> "none", query |-> <<>>, result |-> NoResult,
                  outcomes |-> <<>>, sleeps |-> 0, hit |-> FALSE,
                  data |-> BareData, before |-> EmptyCache]

\* fetch_medical_info(query), lines 110-127: the cache is asked first
FetchStart(query) ==
    /\ lk.pc = "idle"
    /\ LET cached == get_cached_response(cache, QueryLower(query))
       IN  IF cached # NoResult
           THEN /\ lkLast' = [NoLookupEvent EXCEPT !.op = "return",
                                !.query = query, !.result = cached,
                                !.hit = TRUE, !.before = cache]
                /\ UNCHANGED lk
           ELSE /\ lk' = [NoLookup EXCEPT !.pc = "trying", !.query = query,
                                !.before = cache]
                /\ lkLast' = [NoLookupEvent EXCEPT !.op = "start",
                                !.query = query, !.before = cache]
    /\ UNCHANGED <<cache, rvars, pvars>>

\* one pass of the loop of lines 129-158, and lines 161-168 after the last
FetchAttempt(out) ==
    /\ lk.pc = "trying"
    /\ Len(lk.outcomes) < MaxAttempts
    /\ LET outcomes == Append(lk.outcomes, out.kind)
           ev == [NoLookupEvent EXCEPT !.query = lk.query,
                        !.outcomes = outcomes, !.before = lk.before]
       IN  IF out.kind = "ok"
           THEN LET result == BuildResult(lk.query, out.data)
                IN  /\ cache' = save_cached_response(cache,
                                    QueryLower(lk.query), result)
                    /\ lkLast' = [ev EXCEPT !.op = "return",
                                    !.result = result, !.sleeps = lk.sleeps,
                                    !.data = out.data]
                    /\ lk' = NoLookup
           ELSE \* except: print, time.sleep(2)
                /\ UNCHANGED cache
                /\ IF Len(outcomes) = MaxAttempts
                   THEN /\ lkLast' = [ev EXCEPT !.op = "return",
                                        !.result = Degraded(lk.query),
                                        !.sleeps = lk.sleeps + 1]
                        /\ lk' = NoLookup
                   ELSE /\ lkLast' = [ev EXCEPT !.op = "retry",
                                        !.sleeps = lk.sleeps + 1]
                        /\ lk' = [lk EXCEPT !.outcomes = outcomes,
                                        !.sleeps = lk.sleeps + 1]
    /\ UNCHANGED <<rvars, pvars>>

\* a lookup that returns the result it could not save
FetchAttemptSaveIgnored(data, damaged) ==
    /\ lk.pc = "trying"
    /\ Len(lk.outcomes) < MaxAttempts
    /\ cache' = (IF damaged THEN EmptyCache ELSE cache)
    /\ lkLast' = [NoLookupEvent EXCEPT !.op = "return", !.query = lk.query,
                    !.outcomes = Append(lk.outcomes, "savefail"),
                    !.before = lk.before, !.sleeps = lk.sleeps,
                    !.result = BuildResult(lk.query, data), !.data = data]
    /\ lk' = NoLookup
    /\ UNCHANGED <<rvars, pvars>>

\* one pass of the loop in which the remote call succeeds and line 153,
\* save_cached_response, raises: open(CACHE_FILE, "w") fails and the file
\* is as it was, or json.dump fails after the file was truncated and the
\* file no longer decodes, which both readers of it take for no cache
FetchAttemptSaveFails(data, damaged) ==
    /\ lk.pc = "trying"
    /\ Len(lk.outcomes) < MaxAttempts
    /\ cache' = (IF damaged THEN EmptyCache ELSE cache)
    /\ LET outcomes == Append(lk.outcomes, "savefail")
           ev == [NoLookupEvent EXCEPT !.query = lk.query,
                        !.outcomes = outcomes, !.before = lk.before,
                        !.data = data]
       IN  \* except: print, time.sleep(2)
           IF Len(outcomes) = MaxAttempts
           THEN /\ lkLast' = [ev EXCEPT !.op = "return",
                                !.result = Degraded(lk.query),
                                !.sleeps = lk.sleeps + 1]
                /\ lk' = NoLookup
           ELSE /\ lkLast' = [ev EXCEPT !.op = "retry",
                                !.sleeps = lk.sleeps + 1]
                /\ lk' = [lk EXCEPT !.outcomes = outcomes,
                                !.sleeps = lk.sleeps + 1]
    /\ UNCHANGED <<rvars, pvars>>

LookupNext ==
    \/ \E q \in Queries : FetchStart(q)
    \/ \E o \in RemoteOutcomes : FetchAttempt(o)

\* the lookup alone: no session has been used, the report file does not exist
LookupInit ==
    /\ file = [kind |-> "missing", analyses |-> <<>>]
    /\ store = [s \in Sessions |-> EmptyStore]
    /\ model = [s \in Sessions |-> FALSE]
    /\ pc = [s \in Sessions |-> "idle"]
    /\ call = [s \in Sessions |-> NoCall]
    /\ nextId = 1
    /\ writer = "none"
    /\ last = NoEvent
    /\ cache = EmptyCache
    /\ lk = NoLookup
    /\ lkLast = NoLookupEvent
    /\ off = NoOffline

LookupSpec == LookupInit /\ [][LookupNext]_vars

\* the lookup with a cache file that cannot always be written
SaveFailNext ==
    \/ \E q \in Queries : FetchStart(q)
    \/ \E o \in RemoteOutcomes : FetchAttempt(o)
    \/ \E d \in RemoteData, damaged \in BOOLEAN :
            FetchAttemptSaveFails(d, damaged)

SaveFailSpec == LookupInit /\ [][SaveFailNext]_vars

\* the sessions as constructed from a file that is missing or no store
Init ==
    /\ file \in {[kind |-> k, analyses |-> <<>>] : k \in FileKinds}
    /\ store = [s \in Sessions |-> _load_analysis_store(file)]
    /\ model \in [Sessions -> BOOLEAN]
    /\ pc = [s \in Sessions |-> "idle"]
    /\ call = [s \in Sessions |-> NoCall]
    /\ nextId = 1
    /\ writer = "none"
    /\ last = NoEvent
    /\ cache = EmptyCache
    /\ lk = NoLookup
    /\ lkLast = NoLookupEvent
    /\ off = NoOffline

\* one session of the application, and the other writer of the file
Next ==
    \/ \E key \in BOOLEAN : Construct("s1", key)
    \/ \E u \in Uploads : AnalyzeUpload("s1", u[1], u[2])
    \/ \E o \in Offered("s1", GatewayOutcomes) : AnalyzeFinish("s1", o)
    \/ \E q \in Questions, o \in Offered("s1", GatewayOutcomes) :
            AnswerQuestion("s1", q, o)
    \/ \E f \in LegacyFilenames, c \in LegacyTexts : add_report_analysis(f, c)

Spec == Init /\ [][Next]_vars

\* two sessions of the application on the same file
TwoUploads == {<<<<"a.txt">>, TextLow>>, <<<<"b.pdf">>, TextTwo>>}
TwoQuestions == {<<"is WBC ok?">>}
TwoOutcomes == {[kind |-> "ok", text |-> <<"AI text">>],
                [kind |-> "error", text |-> ErrDown]}

TwoNext ==
    \/ \E s \in Sessions, key \in BOOLEAN : Construct(s, key)
    \/ \E s \in Sessions, u \in TwoUploads : AnalyzeUpload(s, u[1], u[2])
    \/ \E s \in Sessions : \E o \in Offered(s, TwoOutcomes) :
            AnalyzeFinish(s, o)
    \/ \E s \in Sessions, q \in TwoQuestions : \E o \in Offered(s, TwoOutcomes) :
            AnswerQuestion(s, q, o)

TwoSpec == Init /\ [][TwoNext]_vars

(***************************************************************************)
(* The offline path by itself: _parse_report_values and _offline_summary   *)
(* applied to the texts of given reports, as analyze_report does for one   *)
(* report (lines 146-149) and answer_question for all of them (167-198)    *)
(***************************************************************************)
MaxLines == 3

\* lines a report can have: values with and without a status word, a label
\* that comes again, two values on one line, a line without a value
OffLines == {<<"H","B",":"," ","1">>,
            <<"H","B",":"," ","2"," ","H","I","G","H">>,
            <<"N","A",":"," ","3"," ","L","O","W">>,
            <<"N","A"," ","4",".","5">>,
            <<"K","1",":"," ","6"," ","H","I","G","H">>,
            <<"H","B",":"," ","1"," ","N","A",":"," ","3"," ","L","O","W">>,
            <<"n","o"," ","v","a","l","u","e">>}

RECURSIVE LineSeqs(_)
LineSeqs(n) ==
    IF n = 0 THEN {<<>>}
    ELSE LineSeqs(n - 1)
            \cup {Append(x, l) : x \in LineSeqs(n - 1), l \in OffLines}

LinedTexts == {join(<<NL>>, x) : x \in LineSeqs(MaxLines)}

\* texts around the two fragments "GLUCOSE: 180 HIGH" and "WBC: 6.2"
GlucoseLine == <<"G","L","U","C","O","S","E",":"," ","1","8","0"," ","H","I","G","H">>
WbcLine == <<"W","B","C",":"," ","6",".","2">>
GlucoseBefore == {<<>>,
                  <<"A"," ">>,
                  <<"H","B",":"," ","9"," ","L","O","W",NL>>}
GlucoseAfter == {<<>>,
                 <<NL,"G","L","U","C","O","S","E",":"," ","9","0">>}
WbcBefore == {<<>>,
              <<"N","O"," ">>}
WbcAfter == {<<>>,
             <<" ","H","I","G","H">>,
             <<"5">>}
Between == {<<NL>>,
            <<" ">>,
            <<NL,NL>>}

GlucoseParts ==
    {a \o GlucoseLine \o b : a \in GlucoseBefore, b \in GlucoseAfter}
WbcParts == {a \o WbcLine \o b : a \in WbcBefore, b \in WbcAfter}
FragmentTexts ==
    {g \o m \o w : g \in GlucoseParts, m \in Between, w \in WbcParts}
        \cup {w \o m \o g : g \in GlucoseParts, m \in Between, w \in WbcParts}

\* the texts of two reports of one store
PairTexts == {<<"H","b",":"," ","9"," ","l","o","w">>,
              <<"W","B","C"," ","6",".","2",NL,"H","B",":","1","2">>,
              <<"H","B",":"," ","7"," ","L","O","W">>,
              <<"n","o"," ","v","a","l","u","e">>,
              <<>>}

OfflineInputs ==
    {<<NewReport(uuid4(1), <<"a.txt">>, t)>> :
        t \in LinedTexts \cup FragmentTexts}
    \cup {<<NewReport(uuid4(1), <<"a.txt">>, t),
            NewReport(uuid4(2), <<"b.pdf">>, u)>> :
                t \in PairTexts, u \in PairTexts}

\* lines 167-169 and 197 (line 148 for one report): the texts are combined
\* and parsed
OfflineParse ==
    /\ off.pc = "given"
    /\ LET combined_reports == CombinedReports(off.reports)
       IN  off' = [off EXCEPT !.pc = "parsed",
                        !.combined_reports = combined_reports,
                        !.parsed = _parse_report_values(combined_reports)]
    /\ UNCHANGED <<rvars, lvars>>

\* lines 196-198 (line 147 for one report): the rendering is returned
OfflineSummarize ==
    /\ off.pc = "parsed"
    /\ off' = [off EXCEPT !.pc = "done",
                    !.summary = _offline_summary(off.parsed)]
    /\ UNCHANGED <<rvars, lvars>>

OfflineNext ==
    \/ OfflineParse
    \/ OfflineSummarize

OfflineInit ==
    /\ file = [kind |-> "missing", analyses |-> <<>>]
    /\ store = [s \in Sessions |-> EmptyStore]
    /\ model = [s \in Sessions |-> FALSE]
    /\ pc = [s \in Sessions |-> "idle"]
    /\ call = [s \in Sessions |-> NoCall]
    /\ nextId = 1
    /\ writer = "none"
    /\ last = NoEvent
    /\ cache = EmptyCache
    /\ lk = NoLookup
    /\ lkLast = NoLookupEvent
    /\ off \in {[NoOffline EXCEPT !.pc = "given", !.reports = r] :
                    r \in OfflineInputs}

OfflineSpec == OfflineInit /\ [][OfflineNext]_vars

(***************************************************************************)
(* The claims                                                              *)
(***************************************************************************)
Offline(text) == _offline_summary(_parse_report_values(text))
Ids(analyses) == {analyses[i].id : i \in DOMAIN analyses}
ReturnedFrom(op) == last.op = op /\ ~last.raised

\* C1: analyzeReport and answerQuestion never raise, whatever records the
\* store holds; stated for the stores that hold a list of records
C1_NeverRaises ==
    (last.op \in {"analyze", "answer"} /\ store["s1"].kind = "store")
        => ~last.raised

\* C2 as written: a failed or skipped gateway call gives the offline summary
\* of the text, a successful one gives the gateway's text
C2_AsWritten ==
    ReturnedFrom("analyze") =>
        IF last.outcome.kind = "ok"
        THEN last.value = last.outcome.text
        ELSE last.value = Offline(last.content)

\* C2 amended: a failed or skipped gateway call, and a successful one with an
\* empty text, give the offline summary of the text; a successful one with a
\* text that is not empty gives that text
C2_SummaryBySource ==
    ReturnedFrom("analyze") =>
        IF last.outcome.kind = "ok" /\ last.outcome.text # <<>>
        THEN last.value = last.outcome.text
        ELSE last.value = Offline(last.content)

C2_Witness ==
    /\ ReturnedFrom("analyze")
    /\ last.outcome.kind = "error"
    /\ last.value # UNABLE
    /\ last.value = Offline(TextLow)

\* C3: when analyzeReport returns s, the store is what it was before the
\* call plus one record whose aiSummary is s, in memory and in the file
C3_OneRecordWithSummary ==
    ReturnedFrom("analyze") =>
        LET now == store[last.session].analyses
            n   == Len(last.before)
        IN  /\ Len(now) = n + 1
            /\ SubSeq(now, 1, n) = last.before
            /\ now[n + 1].id = last.report_id
            /\ now[n + 1].analysis = last.content
            /\ now[n + 1].ai_summary = last.value
            /\ file.kind = "store"
            /\ file.analyses = now

C3_Witness ==
    /\ ReturnedFrom("analyze")
    /\ Len(last.before) = 1
    /\ last.before[1].ai_summary # last.value

\* C4: within one session the identifiers of the records are pairwise
\* distinct, and a step keeps every record in its place with its id,
\* filename and text
DistinctIds(analyses) ==
    \A i, j \in DOMAIN analyses :
        (i # j /\ analyses[i].id # NoId) => analyses[i].id # analyses[j].id

KeepsRecords(old, new) ==
    \A i \in DOMAIN old :
        /\ i \in DOMAIN new
        /\ new[i].id = old[i].id
        /\ new[i].filename = old[i].filename
        /\ new[i].analysis = old[i].analysis

C4_RecordsKept ==
    [][/\ DistinctIds(store["s1"].analyses')
       /\ last'.op # "construct" =>
            KeepsRecords(store["s1"].analyses, store["s1"].analyses')]_vars

C4_Witness ==
    /\ ReturnedFrom("analyze")
    /\ LET a == store["s1"].analyses
       IN  /\ Len(a) = 2
           /\ a[1].filename = a[2].filename
           /\ a[1].analysis = a[2].analysis
           /\ a[1].id # a[2].id
           /\ a[1].ai_summary # a[2].ai_summary

\* C5: a record a session holds is missing from the file only when another
\* writer wrote the file last, from a memory that does not hold the record
C5_LostOnlyByOverwrite ==
    \A s \in Sessions : \A i \in DOMAIN store[s].analyses :
        LET r == store[s].analyses[i]
        IN  (\A j \in DOMAIN file.analyses : file.analyses[j] # r) =>
                /\ writer \notin {s, "none"}
                /\ writer \in Sessions =>
                    \A j \in DOMAIN store[writer].analyses :
                        store[writer].analyses[j] # r

\* one session returns from analyzeReport while the other is inside its
\* own: the record the other one persisted in upload_report is gone
C5_Witness ==
    \E s, t \in Sessions :
        /\ s # t
        /\ pc[s] = "analyzing"
        /\ ReturnedFrom("analyze") /\ last.session = t
        /\ writer = t
        /\ call[s].report_id \in Ids(store[s].analyses)
        /\ call[s].report_id \notin Ids(file.analyses)

\* C6: after two failed attempts and a successful third, lookup returns the
\* result of the third and the cache holds it under the folded query; a
\* lookup whose folded query is in the cache returns the cached result
\* without a remote call; an entry of the cache stays as it is
Folded(query) == lower(query)

C6_RetryThenCache ==
    [][/\ (lkLast'.op = "return"
            /\ lkLast'.outcomes = <<"fail", "fail", "ok">>) =>
                /\ lkLast'.result = BuildResult(lkLast'.query, lkLast'.data)
                /\ Folded(lkLast'.query) \in DOMAIN cache'
                /\ cache'[Folded(lkLast'.query)] = lkLast'.result
       /\ \A q \in Queries :
            (lk.pc = "idle" /\ lkLast'.query = q /\ lkLast'.outcomes = <<>>
                /\ lkLast'.op \in {"start", "return"}
                /\ Folded(q) \in DOMAIN cache) =>
                    /\ lkLast'.op = "return"
                    /\ lkLast'.result = cache[Folded(q)]
                    /\ lk'.pc = "idle"
       /\ \A k \in DOMAIN cache :
            k \in DOMAIN cache' /\ cache'[k] = cache[k]]_vars

\* a query served from the cache although it is written in another case
\* than the one the result was fetched for
C6_Witness ==
    /\ lkLast.op = "return"
    /\ lkLast.hit
    /\ lkLast.outcomes = <<>>
    /\ lkLast.result.query # lkLast.query
    /\ lkLast.result = BuildResult(lkLast.result.query, FullData)

\* C7: after three failed attempts lookup returns the degraded result, the
\* cache is as it was when the call began and has no entry for the query
C7_AllFail ==
    (lkLast.op = "return"
        /\ lkLast.outcomes = <<"fail", "fail", "fail">>) =>
            /\ lkLast.result.query = lkLast.query
            /\ lkLast.result.description = <<"Medical service unavailable">>
            /\ lkLast.result.common_symptoms = <<"Unavailable">>
            /\ lkLast.result.treatment = <<"Unavailable">>
            /\ lkLast.result.warnings = <<"Unavailable">>
            /\ lkLast.result.references = <<"Unavailable">>
            /\ cache = lkLast.before
            /\ Folded(lkLast.query) \notin DOMAIN cache

C7_Witness ==
    /\ lkLast.op = "return"
    /\ lkLast.outcomes = <<"fail", "fail", "fail">>
    /\ cache # EmptyCache

\* C8: a lookup that missed the cache makes at most three remote attempts
\* and sleeps only between two of them: one sleep less than attempts
C8_DelaysBetweenAttempts ==
    (lkLast.op = "return" /\ ~lkLast.hit) =>
        /\ Len(lkLast.outcomes) \in 1..MaxAttempts
        /\ lkLast.sleeps = Len(lkLast.outcomes) - 1

\* C9: a call invokes the gateway never when the session has no model and
\* at most once when it has one
C9_GatewayCalls ==
    last.op \in {"analyze", "answer"} =>
        /\ ~model[last.session] => last.calls = 0
        /\ last.calls <= 1

C9_Witness ==
    /\ last.op = "analyze"
    /\ last.outcome.kind = "error"
    /\ last.calls = 1

\* C10: on a store with records answerQuestion returns the gateway's text on
\* success, the quota message on a quota failure and the offline summary of
\* the combined reports otherwise; it changes neither memory nor file
C10_AnswerByOutcome ==
    [][last'.op = "answer" =>
        /\ store' = store
        /\ file' = file
        /\ store[last'.session].analyses # <<>> =>
            /\ ~last'.raised
            /\ last'.outcome.kind = "ok" =>
                    last'.value = last'.outcome.text
            /\ last'.outcome = [kind |-> "error", text |-> ErrQuota] =>
                    last'.value = QUOTA_EXCEEDED
            /\ (\/ last'.outcome = [kind |-> "error", text |-> ErrDown]
                \/ last'.outcome = Unavailable) =>
                    last'.value = Offline(
                        CombinedReports(store[last'.session].analyses))]_vars

C10_Witness ==
    /\ ReturnedFrom("answer")
    /\ last.outcome = [kind |-> "error", text |-> ErrQuota]
    /\ last.value = QUOTA_EXCEEDED
    /\ Len(store["s1"].analyses) = 2

\* C11: on a store that holds no records answerQuestion returns the fixed
\* "no reports uploaded" message for every question and every gateway
\* state, makes no gateway call and changes neither memory nor file
C11_NoReportsMessage ==
    [][(last'.op = "answer" /\ store[last'.session].analyses = <<>>) =>
        /\ ~last'.raised
        /\ last'.value = NO_REPORTS
        /\ last'.calls = 0
        /\ store' = store
        /\ file' = file]_vars

\* where the text of record i begins in a corpus of texts two newlines apart
RECURSIVE TextOffset(_, _)
TextOffset(reports, i) ==
    IF i = 1 THEN 0
    ELSE TextOffset(reports, i - 1) + Len(reports[i - 1].analysis) + 2

\* C12 as written: the corpus holds, for every record, the record's filename
\* and after it the record's text
C12_AsWritten ==
    (ReturnedFrom("answer") /\ store[last.session].analyses # <<>>) =>
        \A i \in DOMAIN store[last.session].analyses :
            LET r == store[last.session].analyses[i]
            IN  \E p \in 1..Len(last.corpus) :
                    /\ StartsAt(last.corpus, p, r.filename)
                    /\ \E q \in p..(Len(last.corpus) + 1) :
                            StartsAt(last.corpus, q, r.analysis)

\* C12 amended: the corpus is the texts of the records in store order, two
\* newlines between one text and the next, and nothing else: no filename and
\* no summary; the offline answer is the offline summary of this corpus
C12_CorpusOfTexts ==
    (ReturnedFrom("answer") /\ store[last.session].analyses # <<>>) =>
        LET reports == store[last.session].analyses
            n == Len(reports)
            c == last.corpus
        IN  /\ Len(c) = TextOffset(reports, n) + Len(reports[n].analysis)
            /\ \A i \in 1..n :
                    SubSeq(c, TextOffset(reports, i) + 1,
                           TextOffset(reports, i) + Len(reports[i].analysis))
                        = reports[i].analysis
            /\ \A i \in 2..n :
                    /\ c[TextOffset(reports, i) - 1] = NL
                    /\ c[TextOffset(reports, i)] = NL
            /\ (\/ last.outcome.kind = "unavailable"
                \/ last.outcome = [kind |-> "error", text |-> ErrDown]) =>
                    last.value = _offline_summary(_parse_report_values(c))

\* two records with different file names, the first with a summary of its
\* own, and an offline answer made from the two texts
C12_Witness ==
    /\ ReturnedFrom("answer")
    /\ last.outcome = [kind |-> "error", text |-> ErrDown]
    /\ LET reports == store[last.session].analyses
       IN  /\ Len(reports) = 2
           /\ reports[1].filename # reports[2].filename
           /\ reports[1].ai_summary \notin {None, reports[1].analysis}
           /\ last.corpus = reports[1].analysis \o <<NL, NL>>
                                \o reports[2].analysis

\* C13: a session constructed while the file is missing, undecodable or
\* decodable but not of the store's shape holds the empty store, and the
\* calls a session then makes work on the store it loaded: none raises
C13_LoadGivesEmptyStore ==
    /\ (last.op = "construct" /\ file.kind # "store") =>
            store[last.session] = EmptyStore
    /\ (last.op \in {"analyze", "answer"}
            /\ \A i \in DOMAIN store[last.session].analyses :
                    store[last.session].analyses[i].id # NoId) =>
            ~last.raised

\* the mapping has the entry key -> {value, status}
HasEntry(parsed, key, value, status) ==
    \E i \in DOMAIN parsed :
        /\ parsed[i].key = key
        /\ parsed[i].value = value
        /\ parsed[i].status = status

\* item is a line of the section that header opens: header comes before it
\* and only bulleted lines stand between the two
InSection(lines, header, item) ==
    \E h, b \in DOMAIN lines :
        /\ h < b
        /\ lines[h] = header
        /\ lines[b] = item
        /\ \A k \in (h + 1)..(b - 1) : lines[k] # <<>> /\ lines[k][1] = "- "

\* the label a line yields, <<>> when it yields none
LabelOf(line) ==
    LET m == search(upper(line))
    IN  IF m = <<>> THEN <<>> ELSE strip(m[1].param)

\* line is a whole line of text and no later line yields label
LastLineOf(text, line, label) ==
    LET lines == splitlines(text)
    IN  \E i \in DOMAIN lines :
            /\ lines[i] = line
            /\ \A j \in (i + 1)..Len(lines) : LabelOf(lines[j]) # label

GLUCOSE == <<"G","L","U","C","O","S","E">>
WBC == <<"W","B","C">>

\* GLUCOSE is 180 and High, WBC is 6.2 and Normal, and the summary lists
\* WBC among the normal values and GLUCOSE, marked up, among the high ones
GlucoseHighWbcNormal ==
    /\ HasEntry(off.parsed, GLUCOSE, <<"1","8","0">>, <<"H","i","g","h">>)
    /\ HasEntry(off.parsed, WBC, <<"6",".","2">>,
                <<"N","o","r","m","a","l">>)
    /\ InSection(splitlines(off.summary), <<"(ok) Normal Values:">>,
                 <<"- ">> \o WBC \o <<": ">> \o <<"6",".","2">>)
    /\ InSection(splitlines(off.summary), <<"(warn) High Values:">>,
                 <<"- ">> \o GLUCOSE \o <<": ">> \o <<"1","8","0">>
                    \o <<" (up)">>)

\* C14 as written: every text that contains "GLUCOSE: 180 HIGH" and
\* "WBC: 6.2" is parsed to GLUCOSE 180 High and WBC 6.2 Normal and is
\* summarised with WBC under Normal and GLUCOSE, marked up, under High
C14_AsWritten ==
    (/\ off.pc = "done"
     /\ Len(off.reports) = 1
     /\ Contains(off.reports[1].analysis, GlucoseLine)
     /\ Contains(off.reports[1].analysis, WbcLine)) =>
        GlucoseHighWbcNormal

\* C14 amended: the same for every text in which "GLUCOSE: 180 HIGH" and
\* "WBC: 6.2" are each a whole line, the last line that yields its label
C14_OwnLines ==
    (/\ off.pc = "done"
     /\ Len(off.reports) = 1
     /\ LastLineOf(off.reports[1].analysis, GlucoseLine, GLUCOSE)
     /\ LastLineOf(off.reports[1].analysis, WbcLine, WBC)) =>
        GlucoseHighWbcNormal

\* the two lines among others: a low value before them, an empty line
\* between them
C14_Witness ==
    /\ off.pc = "done"
    /\ Len(off.reports) = 1
    /\ LastLineOf(off.reports[1].analysis, GlucoseLine, GLUCOSE)
    /\ LastLineOf(off.reports[1].analysis, WbcLine, WBC)
    /\ Len(splitlines(off.reports[1].analysis)) = 4
    /\ Len(off.parsed) = 3
    /\ off.summary # UNABLE

\* the words of the three statuses and what the summary shows for each
StatusHigh == <<"H","i","g","h">>
StatusLow == <<"L","o","w">>
HeaderOf(status) ==
    IF status = StatusHigh THEN <<"(warn) High Values:">>
    ELSE IF status = StatusLow THEN <<"(warn) Low Values:">>
    ELSE <<"(ok) Normal Values:">>
MarkerOf(status) ==
    IF status = StatusHigh THEN <<" (up)">>
    ELSE IF status = StatusLow THEN <<" (down)">>
    ELSE <<>>
Headers == {<<"(ok) Normal Values:">>, <<"(warn) High Values:">>,
            <<"(warn) Low Values:">>}
BulletOf(e) ==
    <<"- ">> \o e.key \o <<": ">> \o e.value \o MarkerOf(e.status)
Places(lines, line) == {k \in DOMAIN lines : lines[k] = line}

\* C15: the summary of the empty mapping is the fixed "unable to interpret"
\* message; the summary of any other mapping has one header for each status
\* that occurs, Normal before High before Low, every observation once, as
\* the bullet "parameter: value" with its marker under the header of its
\* status, nothing else but empty lines, and the recommendation at the end
C15_SummaryShape ==
    off.pc = "done" =>
        LET lines == splitlines(off.summary)
            n == Len(lines)
        IN  IF off.parsed = <<>>
            THEN off.summary = <<"(warn) Unable to interpret report content.">>
            ELSE /\ \A i \in DOMAIN off.parsed :
                        /\ Cardinality(Places(lines, BulletOf(off.parsed[i])))
                                = 1
                        /\ InSection(lines, HeaderOf(off.parsed[i].status),
                                     BulletOf(off.parsed[i]))
                 /\ \A h \in Headers :
                        /\ Cardinality(Places(lines, h)) <= 1
                        /\ Places(lines, h) # {} =>
                             \E i \in DOMAIN off.parsed :
                                HeaderOf(off.parsed[i].status) = h
                 /\ \A a \in Places(lines, <<"(ok) Normal Values:">>),
                       b \in Places(lines, <<"(warn) High Values:">>),
                       c \in Places(lines, <<"(warn) Low Values:">>) :
                        a < b /\ b < c
                 /\ \A a \in Places(lines, <<"(ok) Normal Values:">>),
                       b \in Places(lines, <<"(warn) High Values:">>)
                                \cup Places(lines, <<"(warn) Low Values:">>) :
                        a < b
                 /\ \A b \in Places(lines, <<"(warn) High Values:">>),
                       c \in Places(lines, <<"(warn) Low Values:">>) : b < c
                 /\ n >= 3
                 /\ lines[n - 1] = <<"(alarm) Recommendation:">>
                 /\ lines[n] =
                        <<"- Please consult a qualified medical professional.">>
                 /\ \A k \in 1..(n - 2) :
                        \/ lines[k] = <<>>
                        \/ lines[k] \in Headers
                        \/ \E i \in DOMAIN off.parsed :
                                lines[k] = BulletOf(off.parsed[i])

\* a mapping with a normal, a high and a low value
C15_Witness ==
    /\ off.pc = "done"
    /\ Len(off.parsed) = 3
    /\ {off.parsed[i].status : i \in DOMAIN off.parsed}
            = {StatusHigh, StatusLow, <<"N","o","r","m","a","l">>}
    /\ off.parsed[1].status = StatusHigh

\* what a line yields by itself: the status word as the mapping keeps it
StatusWordOf(line) ==
    LET m == search(upper(line))
    IN  IF m[1].status = HIGH THEN StatusHigh
        ELSE IF m[1].status = LOW THEN StatusLow
        ELSE <<"N","o","r","m","a","l">>
ValueOf(line) == search(upper(line))[1].value
Yielding(lines) == {j \in DOMAIN lines : search(upper(lines[j])) # <<>>}

\* C16: the mapping has at most one entry per line that matches and one
\* entry per label, the label without blanks around it; the entry of a
\* label has the value and the status of the last line that yields the
\* label.  With the texts of two reports combined, a label the second
\* report yields has the entry the second report alone gives it, and the
\* offline answer shows that entry
C16_LastLineWins ==
    off.pc \in {"parsed", "done"} =>
        LET lines == splitlines(off.combined_reports)
            parsed == off.parsed
        IN  /\ Len(parsed) <= Cardinality(Yielding(lines))
            /\ \A i, k \in DOMAIN parsed :
                    i # k => parsed[i].key # parsed[k].key
            /\ {parsed[i].key : i \in DOMAIN parsed}
                    = {LabelOf(lines[j]) : j \in Yielding(lines)}
            /\ \A i \in DOMAIN parsed :
                    /\ parsed[i].key # <<>>
                    /\ parsed[i].key[1] \notin SpaceCh
                    /\ parsed[i].key[Len(parsed[i].key)] \notin SpaceCh
                    /\ \E j \in Yielding(lines) :
                        /\ LabelOf(lines[j]) = parsed[i].key
                        /\ \A l \in Yielding(lines) :
                            LabelOf(lines[l]) = parsed[i].key => l <= j
                        /\ parsed[i].value = ValueOf(lines[j])
                        /\ parsed[i].status = StatusWordOf(lines[j])
            /\ Len(off.reports) = 2 =>
                LET later == _parse_report_values(off.reports[2].analysis)
                IN  \A i \in DOMAIN later :
                        /\ HasEntry(parsed, later[i].key, later[i].value,
                                    later[i].status)
                        /\ off.pc = "done" =>
                            InSection(splitlines(off.summary),
                                      HeaderOf(later[i].status),
                                      BulletOf(later[i]))

\* two reports that both give HB, low in the first and normal in the
\* second: the offline answer has the second value and not the first
C16_Witness ==
    /\ off.pc = "done"
    /\ Len(off.reports) = 2
    /\ HasEntry(_parse_report_values(off.reports[1].analysis),
                <<"H","B">>, <<"9">>, StatusLow)
    /\ HasEntry(off.parsed, <<"H","B">>, <<"1","2">>,
                <<"N","o","r","m","a","l">>)
    /\ Places(splitlines(off.summary),
              <<"- ","H","B",": ","9"," (down)">>) = {}
    /\ Len(off.parsed) = 2

\* C17: only its construction lets a session take anything from the file:
\* any other step leaves the memory of the sessions that do not act as it
\* is and gives the acting session at most one record, a new one.  A step
\* that mutates (upload_report, the summary of analyze_report) leaves the
\* file equal to the memory of its session, so every record of the file
\* that this memory lacks, persisted by another session after this one
\* was constructed, is no longer in the file
C17_FileIsWritersMemory ==
    [][/\ last'.op # "construct" =>
            \A s \in Sessions :
                /\ s # last'.session => store'[s] = store[s]
                /\ KeepsRecords(store[s].analyses, store'[s].analyses)
                /\ Len(store'[s].analyses) <= Len(store[s].analyses) + 1
                /\ \A i \in DOMAIN store'[s].analyses :
                        i > Len(store[s].analyses) =>
                            /\ store'[s].analyses[i].id \notin Ids(file.analyses)
                            /\ store'[s].analyses[i].id = nextId
       /\ (last'.op \in {"upload", "analyze"} /\ ~last'.raised) =>
            /\ file' = store'[last'.session]
            /\ \A id \in Ids(file.analyses) \ Ids(store[last'.session].analyses) :
                    id \notin Ids(file'.analyses)]_vars

\* a session is constructed, the other one analyses a report from start to
\* end, then the first uploads: the file has lost the other one's record
C17_Witness ==
    \E s, t \in Sessions :
        /\ s # t
        /\ last.op = "upload" /\ last.session = s
        /\ pc[t] = "idle"
        /\ Len(store[s].analyses) = 1
        /\ Len(store[t].analyses) = 1
        /\ store[t].analyses[1].ai_summary # None
        /\ store[t].analyses[1].id < store[s].analyses[1].id
        /\ file = store[s]
        /\ store[t].analyses[1].id \notin Ids(file.analyses)

EmptyText == [kind |-> "ok", text |-> <<>>]

\* the records of the list that have the identifier
WithId(analyses, id) ==
    {analyses[i] : i \in {k \in DOMAIN analyses : analyses[k].id = id}}

\* C18: when the gateway call succeeds with an empty text, analyzeReport
\* returns the offline summary of the report text and that summary is in
\* the file; the summary in the file of a report whose analyzeReport has
\* returned is neither empty nor null; answerQuestion returns the empty
\* text as the answer
C18_EmptyText ==
    /\ ReturnedFrom("analyze") =>
        /\ WithId(file.analyses, last.report_id) # {}
        /\ \A r \in WithId(file.analyses, last.report_id) :
                /\ r.ai_summary = last.value
                /\ r.ai_summary \notin {None, <<>>}
        /\ last.outcome = EmptyText =>
                /\ last.calls = 1
                /\ last.value = Offline(last.content)
    /\ (ReturnedFrom("answer") /\ last.calls = 1
            /\ last.outcome = EmptyText) =>
                last.value = <<>>

\* the gateway answers a report that has a low value with an empty text
C18_Witness ==
    /\ ReturnedFrom("analyze")
    /\ last.outcome = EmptyText
    /\ last.calls = 1
    /\ last.content = TextLow
    /\ last.value # UNABLE
    /\ \E r \in WithId(file.analyses, last.report_id) :
            r.ai_summary = Offline(TextLow)

\* C19: an attempt whose remote call succeeds and whose save fails is a
\* failed attempt: nothing is returned, the loop sleeps and calls again
\* while fewer than three calls were made; after three such attempts the
\* degraded result is returned although each remote call succeeded; a
\* result other than the degraded one is returned by an attempt that saved
\* it, and the cache then holds it under the folded query
C19_SaveFailureIsFailure ==
    LET n == Len(lkLast.outcomes)
    IN  /\ n <= MaxAttempts
        /\ (n >= 1 /\ lkLast.outcomes[n] = "savefail") =>
            /\ lkLast.sleeps = n
            /\ IF n < MaxAttempts
               THEN /\ lkLast.op = "retry"
                    /\ lk.pc = "trying"
                    /\ lk.outcomes = lkLast.outcomes
               ELSE /\ lkLast.op = "return"
                    /\ lk.pc = "idle"
                    /\ lkLast.result.description
                            = <<"Medical service unavailable">>
                    /\ lkLast.result.common_symptoms = <<"Unavailable">>
                    /\ lkLast.result.treatment = <<"Unavailable">>
                    /\ lkLast.result.warnings = <<"Unavailable">>
                    /\ lkLast.result.references = <<"Unavailable">>
        /\ (lkLast.op = "return" /\ ~lkLast.hit
                /\ lkLast.result.description
                        # <<"Medical service unavailable">>) =>
            /\ lkLast.outcomes[n] = "ok"
            /\ Folded(lkLast.query) \in DOMAIN cache
            /\ cache[Folded(lkLast.query)] = lkLast.result

\* three remote calls that all succeed, three saves that all fail
C19_Witness ==
    /\ lkLast.op = "return"
    /\ lkLast.outcomes = <<"savefail", "savefail", "savefail">>
    /\ lkLast.data = FullData
    /\ lkLast.result.description = <<"Medical service unavailable">>
    /\ Folded(lkLast.query) \notin DOMAIN cache
====
